---- MODULE Spec2Model ----
(***************************************************************************)
(* The user-record command line tool of app/cli.py: eight commands, each   *)
(* opening one session on a relational store with a single User table,     *)
(* doing one lookup or one mutation, and printing its outcome.             *)
(*                                                                         *)
(* The store is the sequence of durable rows in rowid order.  Text columns *)
(* are TLA+ strings; Chars spells each one out where the code looks inside *)
(* a string (the LIKE match of find_user_partial).                         *)
(***************************************************************************)
EXTENDS Integers, Sequences, FiniteSets

\* ------------------------------------------------------------- bounds ----
\* Largest id the store hands out (create_user is not run once the next id
\* would exceed it).
MaxId == 3
\* Largest id in the pagination specification, which holds five users.
ListMaxId == 5
\* list_users arguments explored: limit in 0..MaxLimit, offset in -1..MaxOffset.
MaxLimit == 2
MaxOffset == 5

\* ------------------------------------------------------------- inputs ----
Usernames == {"bob", "rob", "al"}
Emails == {"bob@mail.com", "rob@mail.com", "al@x.io"}
Passwords == {"bobpass", "pw"}
Partials == {"", "ob", "b_b", "BOB", "%", "@m", "zz", "l@"}

\* The five users of the pagination specification, u1..u5 by name.
ListUsernames == {"u1", "u2", "u3", "u4", "u5"}
ListEmail(username) ==
    CASE username = "u1" -> "u1@x.io"
      [] username = "u2" -> "u2@x.io"
      [] username = "u3" -> "u3@x.io"
      [] username = "u4" -> "u4@x.io"
      [] OTHER -> "u5@x.io"

\* The characters of each string the LIKE match is run on.
Chars(s) ==
    CASE s = "" -> << >>
      [] s = "bob" -> <<"b", "o", "b">>
      [] s = "rob" -> <<"r", "o", "b">>
      [] s = "al" -> <<"a", "l">>
      [] s = "bob@mail.com" -> <<"b", "o", "b", "@", "m", "a", "i", "l", ".", "c", "o", "m">>
      [] s = "rob@mail.com" -> <<"r", "o", "b", "@", "m", "a", "i", "l", ".", "c", "o", "m">>
      [] s = "al@x.io" -> <<"a", "l", "@", "x", ".", "i", "o">>
      [] s = "ob" -> <<"o", "b">>
      [] s = "b_b" -> <<"b", "_", "b">>
      [] s = "BOB" -> <<"B", "O", "B">>
      [] s = "%" -> <<"%">>
      [] s = "@m" -> <<"@", "m">>
      [] s = "zz" -> <<"z", "z">>
      [] s = "l@" -> <<"l", "@">>
      [] s = "u1" -> <<"u", "1">>
      [] s = "u2" -> <<"u", "2">>
      [] s = "u3" -> <<"u", "3">>
      [] s = "u4" -> <<"u", "4">>
      [] s = "u5" -> <<"u", "5">>
      [] s = "u1@x.io" -> <<"u", "1", "@", "x", ".", "i", "o">>
      [] s = "u2@x.io" -> <<"u", "2", "@", "x", ".", "i", "o">>
      [] s = "u3@x.io" -> <<"u", "3", "@", "x", ".", "i", "o">>
      [] s = "u4@x.io" -> <<"u", "4", "@", "x", ".", "i", "o">>
      [] s = "u5@x.io" -> <<"u", "5", "@", "x", ".", "i", "o">>

\* -------------------------------------------------------------- state ----
VARIABLES
    store,      \* the durable User rows, in rowid (insertion) order
    nocase,     \* whether the store's LIKE folds ASCII case (fixed per build)
    cmd,        \* the command last run, with its arguments
    before,     \* the durable rows when that command started
    res         \* what that command printed and how it ended

vars == <<store, nocase, cmd, before, res>>

\* ------------------------------------------------------ storage layer ----
\* A User object as its constructor builds it: no id before the first persist.
User(username, email, password) ==
    [username |-> username, email |-> email, password |-> password, id |-> 0]

\* The id an INSERT assigns: one more than the largest id in the table.
NextId(rows) ==
    IF rows = << >> THEN 1 ELSE rows[Len(rows)].id + 1

\* The schema with the unique constraint on email left off the column.
UniqueOk_username_only(rows) ==
    \A i, j \in 1..Len(rows) :
        i # j => rows[i].username # rows[j].username

\* The unique constraints on username and on email.
UniqueOk(rows) ==
    \A i, j \in 1..Len(rows) :
        i # j => /\ rows[i].username # rows[j].username
                 /\ rows[i].email # rows[j].email

\* commit(): the staged rows become durable unless a unique constraint
\* would be broken; then IntegrityError, and the durable rows stay.
commit(durable, staged) ==
    IF UniqueOk(staged)
    THEN [store |-> staged, ok |-> TRUE]
    ELSE [store |-> durable, ok |-> FALSE]

\* db.add(new object) then flush: INSERT with a fresh id, at the end.
add(rows, user) ==
    Append(rows, [username |-> user.username, email |-> user.email,
                  password |-> user.password, id |-> NextId(rows)])

\* drop_all() then create_db_and_tables(): an empty table.
drop_and_create(rows) == << >>

\* select(User).where(User.username == username) ... .first(): the index of
\* the first matching row, 0 for None.
first_by_username(rows, username) ==
    IF \E i \in 1..Len(rows) : rows[i].username = username
    THEN CHOOSE i \in 1..Len(rows) :
            /\ rows[i].username = username
            /\ \A j \in 1..(i - 1) : rows[j].username # username
    ELSE 0

\* A sequence without its i-th element.
RemoveAt(rows, i) ==
    SubSeq(rows, 1, i - 1) \o SubSeq(rows, i + 1, Len(rows))

\* ---------------------------------------------------------- results ----
Result(rows, out, msg, error, exit) ==
    [store |-> rows, out |-> out, msg |-> msg, error |-> error, exit |-> exit]

\* rollback(): the session forgets what it staged.
rollback(durable, staged) == durable

\* ----------------------------------------------------------- LIKE ----
\* ASCII lower case of the letters the inputs use.
Lower(c) ==
    CASE c = "B" -> "b"
      [] c = "O" -> "o"
      [] OTHER -> c

CharEq(a, b, ci) ==
    IF ci THEN Lower(a) = Lower(b) ELSE a = b

\* SQL LIKE with no ESCAPE: % matches any run of characters, _ matches any
\* one character, every other character matches itself.
RECURSIVE LikeMatch(_, _, _)
LikeMatch(p, s, ci) ==
    IF p = << >> THEN s = << >>
    ELSE IF Head(p) = "%"
         THEN \/ LikeMatch(Tail(p), s, ci)
              \/ (s # << >> /\ LikeMatch(p, Tail(s), ci))
    ELSE IF s = << >> THEN FALSE
    ELSE IF Head(p) = "_" THEN LikeMatch(Tail(p), Tail(s), ci)
    ELSE CharEq(Head(p), Head(s), ci) /\ LikeMatch(Tail(p), Tail(s), ci)

\* column.contains(partial): column LIKE '%' || partial || '%'.
contains(column, partial, ci) ==
    LikeMatch(<<"%">> \o Chars(partial) \o <<"%">>, Chars(column), ci)

\* ------------------------------------------------- OFFSET and LIMIT ----
RECURSIVE Drop(_, _)
Drop(rows, n) ==
    IF n = 0 \/ rows = << >> THEN rows ELSE Drop(Tail(rows), n - 1)

RECURSIVE Take(_, _)
Take(rows, n) ==
    IF n = 0 \/ rows = << >> THEN << >>
    ELSE <<Head(rows)>> \o Take(Tail(rows), n - 1)

\* ------------------------------------------------------- operations ----
\* initialize with the drop_all() call left out.
initialize_no_drop(rows) ==
    LET c == commit(rows, add(rows, User("bob", "bob@mail.com", "bobpass")))
    IN  IF c.ok
        THEN Result(c.store, << >>, "Database Initialized", "none", "ok")
        ELSE Result(c.store, << >>, "", "IntegrityError", "failure")

initialize(rows) ==
    LET empty == drop_and_create(rows)
        c == commit(empty, add(empty, User("bob", "bob@mail.com", "bobpass")))
    IN  IF c.ok
        THEN Result(c.store, << >>, "Database Initialized", "none", "ok")
        ELSE Result(c.store, << >>, "", "IntegrityError", "failure")

get_user(rows, username) ==
    LET i == first_by_username(rows, username)
    IN  IF i = 0
        THEN Result(rows, << >>, "not found!", "none", "ok")
        ELSE Result(rows, <<rows[i]>>, "", "none", "ok")

get_all_users(rows) ==
    IF rows = << >>
    THEN Result(rows, << >>, "No users found!", "none", "ok")
    ELSE Result(rows, rows, "", "none", "ok")

\* change_email whose select has lost its where clause: the first row of the
\* table is the one updated.
change_email_first_row(rows, username, new_email) ==
    LET i == first_by_username(rows, username)
        staged == [rows EXCEPT ![1].email = new_email]
        c == commit(rows, staged)
    IN  IF i = 0
        THEN Result(rows, << >>, "not found! Unable to update email.", "none", "ok")
        ELSE IF c.ok
        THEN Result(c.store, <<c.store[1]>>, "Updated", "none", "ok")
        ELSE Result(c.store, << >>, "", "IntegrityError", "failure")

\* change_email with the IntegrityError caught the way create_user catches it.
change_email_caught(rows, username, new_email) ==
    LET i == first_by_username(rows, username)
        staged == [rows EXCEPT ![i].email = new_email]
        c == commit(rows, staged)
    IN  IF i = 0
        THEN Result(rows, << >>, "not found! Unable to update email.", "none", "ok")
        ELSE IF c.ok
        THEN Result(c.store, <<c.store[i]>>, "Updated", "none", "ok")
        ELSE Result(rollback(c.store, staged), << >>,
                    "Username or email already taken!", "IntegrityError", "ok")

change_email(rows, username, new_email) ==
    LET i == first_by_username(rows, username)
        staged == [rows EXCEPT ![i].email = new_email]
        c == commit(rows, staged)
    IN  IF i = 0
        THEN Result(rows, << >>, "not found! Unable to update email.", "none", "ok")
        ELSE IF c.ok
        THEN Result(c.store, <<c.store[i]>>, "Updated", "none", "ok")
        ELSE Result(c.store, << >>, "", "IntegrityError", "failure")

\* create_user that merges into the row already holding the username.
create_user_merge(rows, username, email, password) ==
    LET newuser == User(username, email, password)
        i == first_by_username(rows, username)
        staged == IF i = 0 THEN add(rows, newuser)
                  ELSE [rows EXCEPT ![i].email = email, ![i].password = password]
        c == commit(rows, staged)
    IN  IF c.ok
        THEN Result(c.store, << >>, "", "none", "ok")
        ELSE Result(rollback(c.store, staged), << >>,
                    "Username or email already taken!", "IntegrityError", "ok")

\* create_user passing email and password to the constructor in the wrong order.
create_user_swapped(rows, username, email, password) ==
    LET newuser == User(username, password, email)
        staged == add(rows, newuser)
        c == commit(rows, staged)
    IN  IF c.ok
        THEN Result(c.store, <<c.store[Len(c.store)]>>, "", "none", "ok")
        ELSE Result(rollback(c.store, staged), << >>,
                    "Username or email already taken!", "IntegrityError", "ok")

create_user(rows, username, email, password) ==
    LET newuser == User(username, email, password)
        staged == add(rows, newuser)
        c == commit(rows, staged)
    IN  IF c.ok
        THEN Result(c.store, <<c.store[Len(c.store)]>>, "", "none", "ok")
        ELSE Result(rollback(c.store, staged), << >>,
                    "Username or email already taken!", "IntegrityError", "ok")

\* delete_user without the not-found return: with no match the first row of
\* the table goes.
delete_user_no_check(rows, username) ==
    LET i == first_by_username(rows, username)
        k == IF i = 0 THEN 1 ELSE i
        c == commit(rows, RemoveAt(rows, k))
    IN  IF rows = << >>
        THEN Result(rows, << >>, "not found! Unable to delete user.", "none", "ok")
        ELSE Result(c.store, << >>, "deleted successfully.", "none", "ok")

\* delete_user deleting every row once the user is found.
delete_user_all(rows, username) ==
    LET i == first_by_username(rows, username)
        c == commit(rows, << >>)
    IN  IF i = 0
        THEN Result(rows, << >>, "not found! Unable to delete user.", "none", "ok")
        ELSE Result(c.store, << >>, "deleted successfully.", "none", "ok")

delete_user(rows, username) ==
    LET i == first_by_username(rows, username)
        c == commit(rows, RemoveAt(rows, i))
    IN  IF i = 0
        THEN Result(rows, << >>, "not found! Unable to delete user.", "none", "ok")
        ELSE IF c.ok
        THEN Result(c.store, << >>, "deleted successfully.", "none", "ok")
        ELSE Result(c.store, << >>, "", "IntegrityError", "failure")

find_user_partial(rows, partial, ci) ==
    LET Match(u) == contains(u.username, partial, ci) \/ contains(u.email, partial, ci)
        users == SelectSeq(rows, Match)
    IN  IF users = << >>
        THEN Result(rows, << >>, "No users found matching", "none", "ok")
        ELSE Result(rows, users, "", "none", "ok")

\* list_users with limit and offset handed to the query the wrong way round.
list_users_swapped(rows, limit, offset) ==
    LET users == Take(Drop(rows, limit), offset)
    IN  IF limit < 1 \/ offset < 0
        THEN Result(rows, << >>, "", "BadParameter", "failure")
        ELSE IF users = << >>
        THEN Result(rows, << >>, "No users found!", "none", "ok")
        ELSE Result(rows, users, "", "none", "ok")

\* limit and offset are validated (min=1, min=0) before the body runs.
list_users(rows, limit, offset) ==
    LET users == Take(Drop(rows, offset), limit)
    IN  IF limit < 1 \/ offset < 0
        THEN Result(rows, << >>, "", "BadParameter", "failure")
        ELSE IF users = << >>
        THEN Result(rows, << >>, "No users found!", "none", "ok")
        ELSE Result(rows, users, "", "none", "ok")

\* ---------------------------------------------------------- actions ----
Cmd(op, username, email, password, partial, limit, offset) ==
    [username |-> username, email |-> email, password |-> password,
     partial |-> partial, limit |-> limit, offset |-> offset, op |-> op]

\* A command run to its end: the rows it leaves, and the record of it.
Finish(r) ==
    /\ store' = r.store
    /\ before' = store
    /\ res' = [out |-> r.out, msg |-> r.msg, error |-> r.error, exit |-> r.exit]
    /\ UNCHANGED nocase

Init ==
    /\ store = << >>
    /\ nocase \in BOOLEAN
    /\ cmd = Cmd("none", "", "", "", "", 0, 0)
    /\ before = << >>
    /\ res = [out |-> << >>, msg |-> "", error |-> "none", exit |-> "ok"]

Initialize ==
    /\ cmd' = Cmd("initialize", "", "", "", "", 0, 0)
    /\ Finish(initialize(store))

GetUser ==
    \E username \in Usernames :
        /\ cmd' = Cmd("get_user", username, "", "", "", 0, 0)
        /\ Finish(get_user(store, username))

GetAllUsers ==
    /\ cmd' = Cmd("get_all_users", "", "", "", "", 0, 0)
    /\ Finish(get_all_users(store))

ChangeEmail ==
    \E username \in Usernames, new_email \in Emails :
        /\ cmd' = Cmd("change_email", username, new_email, "", "", 0, 0)
        /\ Finish(change_email(store, username, new_email))

CreateUser ==
    \E username \in Usernames, email \in Emails, password \in Passwords :
        /\ NextId(store) <= MaxId
        /\ cmd' = Cmd("create_user", username, email, password, "", 0, 0)
        /\ Finish(create_user(store, username, email, password))

DeleteUser ==
    \E username \in Usernames :
        /\ cmd' = Cmd("delete_user", username, "", "", "", 0, 0)
        /\ Finish(delete_user(store, username))

FindUserPartial ==
    \E partial \in Partials :
        /\ cmd' = Cmd("find_user_partial", "", "", "", partial, 0, 0)
        /\ Finish(find_user_partial(store, partial, nocase))

Next ==
    \/ Initialize
    \/ GetUser
    \/ GetAllUsers
    \/ ChangeEmail
    \/ CreateUser
    \/ DeleteUser
    \/ FindUserPartial

Spec == Init /\ [][Next]_vars

\* The pagination specification: the users u1..u5, created and deleted in
\* any order, and paged through.
ListCreateUser ==
    \E username \in ListUsernames :
        /\ NextId(store) <= ListMaxId
        /\ cmd' = Cmd("create_user", username, ListEmail(username), "pw", "", 0, 0)
        /\ Finish(create_user(store, username, ListEmail(username), "pw"))

ListDeleteUser ==
    \E username \in ListUsernames :
        /\ cmd' = Cmd("delete_user", username, "", "", "", 0, 0)
        /\ Finish(delete_user(store, username))

ListUsers ==
    \E limit \in 0..MaxLimit, offset \in (-1)..MaxOffset :
        /\ cmd' = Cmd("list_users", "", "", "", "", limit, offset)
        /\ Finish(list_users(store, limit, offset))

ListNext ==
    \/ ListCreateUser
    \/ ListDeleteUser
    \/ ListUsers

ListSpec == Init /\ [][ListNext]_vars

\* ----------------------------------------------------- properties ----
\* The positions of the rows holding a username, or an email.
WithUsername(rows, username) == {i \in 1..Len(rows) : rows[i].username = username}
WithEmail(rows, email) == {i \in 1..Len(rows) : rows[i].email = email}

\* p occurs in s as a run of consecutive characters, compared exactly.
IsSubstring(p, s) ==
    \E i \in 0..(Len(s) - Len(p)) : SubSeq(s, i + 1, i + Len(p)) = p

Min(a, b) == IF a <= b THEN a ELSE b

\* C1: in every reachable state no two durable rows share a username and no
\* two durable rows share an email.
C1_UniqueUsernameAndEmail ==
    /\ Cardinality({store[i].username : i \in 1..Len(store)}) = Len(store)
    /\ Cardinality({store[i].email : i \in 1..Len(store)}) = Len(store)

\* A store of three users on which a colliding command has just been refused.
C1_Witness ==
    /\ Len(store) = 3
    /\ res.error = "IntegrityError"

\* C2: create_user with a username or an email that a durable row already
\* holds leaves the durable rows as they were, with exactly one row holding
\* that username (that email), and the commit's IntegrityError is reported.
C2_DuplicateCreateRejected ==
    (/\ cmd.op = "create_user"
     /\ \/ WithUsername(before, cmd.username) # {}
        \/ WithEmail(before, cmd.email) # {})
    => /\ store = before
       /\ WithUsername(before, cmd.username) # {}
            => Cardinality(WithUsername(store, cmd.username)) = 1
       /\ WithEmail(before, cmd.email) # {}
            => Cardinality(WithEmail(store, cmd.email)) = 1
       /\ res.error = "IntegrityError"
       /\ res.msg = "Username or email already taken!"
       /\ res.out = << >>

\* A create_user of a fresh username with another user's email, and one of a
\* taken username with a fresh email, are both reached; this is the first.
C2_Witness ==
    /\ cmd.op = "create_user"
    /\ WithUsername(before, cmd.username) = {}
    /\ WithEmail(before, cmd.email) # {}
    /\ Len(before) >= 2

\* C3: get_user and delete_user on a username no durable row holds end in
\* their not-found branch and leave the durable rows exactly as they were.
C3_AbsentUsernameNoMutation ==
    (/\ cmd.op \in {"get_user", "delete_user"}
     /\ WithUsername(before, cmd.username) = {})
    => /\ store = before
       /\ res.out = << >>
       /\ res.error = "none"
       /\ res.msg = IF cmd.op = "get_user" THEN "not found!"
                    ELSE "not found! Unable to delete user."

C3_Witness ==
    /\ cmd.op = "delete_user"
    /\ WithUsername(before, cmd.username) = {}
    /\ Len(before) >= 2

\* C4: a change_email that succeeds on an existing username sets that row's
\* email to new_email, keeps its id, username and password, keeps every
\* other row, adds and removes none, and get_user then shows the new email.
C4_ChangeEmailFrame ==
    (/\ cmd.op = "change_email"
     /\ WithUsername(before, cmd.username) # {}
     /\ res.msg = "Updated")
    => /\ Len(store) = Len(before)
       /\ \A i \in 1..Len(before) :
            IF before[i].username = cmd.username
            THEN /\ store[i].email = cmd.email
                 /\ store[i].id = before[i].id
                 /\ store[i].username = before[i].username
                 /\ store[i].password = before[i].password
            ELSE store[i] = before[i]
       /\ Len(get_user(store, cmd.username).out) = 1
       /\ get_user(store, cmd.username).out[1].email = cmd.email

C4_Witness ==
    /\ cmd.op = "change_email"
    /\ res.msg = "Updated"
    /\ Len(before) >= 2
    /\ \E i \in 2..Len(before) :
        /\ before[i].username = cmd.username
        /\ before[i].email # cmd.email

\* C5: delete_user on an existing username removes the one row with that
\* username and keeps all others, in order; get_user then reports not-found.
C5_DeleteRemovesExactlyOne ==
    (/\ cmd.op = "delete_user"
     /\ WithUsername(before, cmd.username) # {})
    => /\ Len(store) = Len(before) - 1
       /\ \E k \in 1..Len(before) :
            /\ before[k].username = cmd.username
            /\ \A i \in 1..Len(store) :
                 store[i] = IF i < k THEN before[i] ELSE before[i + 1]
       /\ get_user(store, cmd.username).msg = "not found!"
       /\ get_user(store, cmd.username).out = << >>
       /\ res.msg = "deleted successfully."

C5_Witness ==
    /\ cmd.op = "delete_user"
    /\ Len(before) = 3
    /\ before[2].username = cmd.username

\* C6: when neither the username nor the email is taken, create_user
\* succeeds, get_user of that username returns a row with the username,
\* email and password given, and every earlier row is unchanged.
C6_CreateThenGet ==
    (/\ cmd.op = "create_user"
     /\ WithUsername(before, cmd.username) = {}
     /\ WithEmail(before, cmd.email) = {})
    => /\ res.error = "none"
       /\ res.exit = "ok"
       /\ Len(get_user(store, cmd.username).out) = 1
       /\ LET u == get_user(store, cmd.username).out[1]
          IN  /\ u.username = cmd.username
              /\ u.email = cmd.email
              /\ u.password = cmd.password
              /\ res.out = <<u>>
       /\ Len(store) = Len(before) + 1
       /\ \A i \in 1..Len(before) : store[i] = before[i]

C6_Witness ==
    /\ cmd.op = "create_user"
    /\ res.error = "none"
    /\ Len(before) = 2
    /\ cmd.password # "bobpass"

\* C7: after initialize, whatever the store held, the store holds exactly one
\* row, bob / bob@mail.com / bobpass, and running initialize again leaves
\* the same store.
C7_InitializeIdempotent ==
    cmd.op = "initialize"
    => /\ Len(store) = 1
       /\ store[1].username = "bob"
       /\ store[1].email = "bob@mail.com"
       /\ store[1].password = "bobpass"
       /\ res.msg = "Database Initialized"
       /\ initialize(store).store = store
       /\ initialize(initialize(before).store).store = initialize(before).store

\* initialize run on the store an initialize has just left.
C7_Witness ==
    /\ cmd.op = "initialize"
    /\ before = store
    /\ Len(store) = 1

\* C8: on n rows in insertion order, list_users(limit, offset) with
\* limit >= 1 and offset >= 0 returns rows offset+1 .. min(offset+limit, n)
\* in that order, reports "No users found!" exactly when offset >= n, and
\* leaves the store alone; with n = 5, (2, 0) gives rows 1, 2 and (2, 4)
\* gives row 5.
C8_ListUsersPage ==
    (cmd.op = "list_users" /\ cmd.limit >= 1 /\ cmd.offset >= 0)
    => LET n == Len(before)
           hi == Min(cmd.offset + cmd.limit, n)
           count == IF hi > cmd.offset THEN hi - cmd.offset ELSE 0
       IN  /\ Len(res.out) = count
           /\ \A i \in 1..count : res.out[i] = before[cmd.offset + i]
           /\ (res.msg = "No users found!") <=> (cmd.offset >= n)
           /\ store = before
           /\ (n = 5 /\ cmd.limit = 2 /\ cmd.offset = 0)
                => res.out = <<before[1], before[2]>>
           /\ (n = 5 /\ cmd.limit = 2 /\ cmd.offset = 4)
                => res.out = <<before[5]>>

\* The last page of five users: limit 2, offset 4.
C8_Witness ==
    /\ cmd.op = "list_users"
    /\ Len(before) = 5
    /\ cmd.limit = 2
    /\ cmd.offset = 4
    /\ Len(res.out) = 1

\* C9: find_user_partial(partial) returns exactly the rows whose username or
\* email has partial as a substring, compared case-sensitively, reports the
\* no-match message exactly when there is none, and never changes the store.
C9_SubstringMatch ==
    cmd.op = "find_user_partial"
    => LET Has(u) == \/ IsSubstring(Chars(cmd.partial), Chars(u.username))
                     \/ IsSubstring(Chars(cmd.partial), Chars(u.email))
           expected == SelectSeq(before, Has)
       IN  /\ res.out = expected
           /\ (res.msg = "No users found matching") <=> (expected = << >>)
           /\ store = before

\* C10: change_email on an existing user with an email a different durable
\* row holds ends in the uncaught IntegrityError, prints no confirmation,
\* and leaves the durable rows, the target's old email included, as before.
C10_ChangeEmailCollision ==
    (/\ cmd.op = "change_email"
     /\ WithUsername(before, cmd.username) # {}
     /\ \E i \in 1..Len(before) :
          /\ before[i].email = cmd.email
          /\ before[i].username # cmd.username)
    => /\ res.error = "IntegrityError"
       /\ res.exit = "failure"
       /\ res.msg = ""
       /\ res.out = << >>
       /\ store = before

C10_Witness ==
    /\ cmd.op = "change_email"
    /\ res.exit = "failure"
    /\ Len(before) = 3
    /\ WithEmail(before, cmd.email) # WithUsername(before, cmd.username)

====
